---- MODULE Spec2Model ----
(***************************************************************************)
(* The Dirichlet distribution of rand_distr (src/rand_distr/src/           *)
(* dirichlet.rs): the two constructors, the derived equality and the       *)
(* sampler with its stick-breaking and gamma-normalisation paths.          *)
(*                                                                         *)
(* The float type F is a small binary floating-point format with           *)
(* MantBits significant bits, subnormals, round-to-nearest-even, overflow  *)
(* to infinity, underflow to zero and NaN.  A finite value is the integer  *)
(* number k of units of 2^-FracBits it holds.                              *)
(***************************************************************************)
EXTENDS Integers, Sequences, FiniteSets, TLC

\* ------------------------------------------------------------------ bounds
MantBits == 3
FracBits == 5
IntBits == 2
MaxLen == 3
MaxTape == 4

\* ------------------------------------------------------- the float type F
RECURSIVE Pow2(_)
Pow2(n) == IF n = 0 THEN 1 ELSE 2 * Pow2(n - 1)

OneK == Pow2(FracBits)
MaxFinK == (Pow2(MantBits) - 1) * Pow2(FracBits + IntBits - MantBits)

Fin(k) == [c |-> "fin", k |-> k]
NaN == [c |-> "nan", k |-> 0]
PosInf == [c |-> "inf", k |-> 1]
NegInf == [c |-> "inf", k |-> -1]
Zero == Fin(0)
One == Fin(OneK)

Abs(x) == IF x < 0 THEN -x ELSE x
Sgn(x) == IF x < 0 THEN -1 ELSE 1

\* spacing of the representable values around a magnitude whose floor is q
RECURSIVE Ulp(_)
Ulp(q) == IF q < Pow2(MantBits) THEN 1 ELSE 2 * Ulp(q \div 2)

\* the float nearest to sgn * n / d units (n >= 0, d > 0), ties to even
RoundRat(sgn, n, d) ==
    LET u == Ulp(n \div d)
        m == n \div (d * u)
        r == n - m * d * u
        up == (2 * r > d * u) \/ (2 * r = d * u /\ m % 2 = 1)
        k == (IF up THEN m + 1 ELSE m) * u
    IN  IF k > MaxFinK THEN [c |-> "inf", k |-> sgn] ELSE Fin(sgn * k)

\* the float nearest to the real n / d
FromRat(n, d) == RoundRat(Sgn(n), Abs(n) * OneK, d)

IsNaN(x) == x.c = "nan"
IsInf(x) == x.c = "inf"
IsFinite(x) == x.c = "fin"

\* position of a non-NaN float on the extended real line
Ord(x) == IF x.c = "inf" THEN x.k * (MaxFinK + 1) ELSE x.k

FGt(x, y) == ~IsNaN(x) /\ ~IsNaN(y) /\ Ord(x) > Ord(y)
FLe(x, y) == ~IsNaN(x) /\ ~IsNaN(y) /\ Ord(x) <= Ord(y)
FEq(x, y) == ~IsNaN(x) /\ ~IsNaN(y) /\ Ord(x) = Ord(y)

FNeg(x) == IF IsNaN(x) THEN NaN ELSE [c |-> x.c, k |-> -x.k]

FAdd(x, y) ==
    IF IsNaN(x) \/ IsNaN(y) THEN NaN
    ELSE IF IsInf(x) /\ IsInf(y) THEN (IF x.k = y.k THEN x ELSE NaN)
    ELSE IF IsInf(x) THEN x
    ELSE IF IsInf(y) THEN y
    ELSE RoundRat(Sgn(x.k + y.k), Abs(x.k + y.k), 1)

FSub(x, y) == FAdd(x, FNeg(y))

FMul(x, y) ==
    IF IsNaN(x) \/ IsNaN(y) THEN NaN
    ELSE IF IsInf(x) \/ IsInf(y)
         THEN (IF x.k = 0 \/ y.k = 0 THEN NaN
               ELSE [c |-> "inf", k |-> Sgn(x.k) * Sgn(y.k)])
    ELSE RoundRat(Sgn(x.k) * Sgn(y.k), Abs(x.k) * Abs(y.k), OneK)

FDiv(x, y) ==
    IF IsNaN(x) \/ IsNaN(y) THEN NaN
    ELSE IF IsInf(x) THEN (IF IsInf(y) THEN NaN
                           ELSE [c |-> "inf", k |-> x.k * Sgn(y.k)])
    ELSE IF IsInf(y) THEN Zero
    ELSE IF y.k = 0 THEN (IF x.k = 0 THEN NaN
                          ELSE [c |-> "inf", k |-> Sgn(x.k)])
    ELSE RoundRat(Sgn(x.k) * Sgn(y.k), Abs(x.k) * OneK, Abs(y.k))

\* NumCast::from(0.1).unwrap(): the float nearest to 0.1
PointOne == FromRat(1, 10)


\* ------------------------------------------------------------ input sets
\* a value below the 0.1 threshold, and one just above it
Small == FromRat(1, 20)
AboveT == FromRat(1, 8)
InVals == {NaN, FromRat(-1, 1), Zero, Small, PointOne, AboveT, PosInf}
SeqsUpTo(S, n) == UNION {[1..m -> S] : m \in 0..n}
Sessions == {1, 2}
\* one 32-bit word of the generator, cut down to MaxWord + 1 values
MaxWord == 3
Words == 0..MaxWord

VARIABLES
    arg,            \* per session: the last constructor call and its arguments
    res,            \* per session: the Result<Dirichlet<F>, Error> it returned
    pc,             \* per session: position inside Dirichlet::sample
    samples,        \* per session: local `samples` of the running sample call
    acc,            \* per session: local `acc` (stick left over)
    sum,            \* per session: local `sum` of the gamma variates
    idx,            \* per session: 1-based position of the running zip loop
    alpha_sum_rl,   \* per session: local `alpha_sum_rl`
    log,            \* per session: Beta/Gamma draws made by the running call
    hist,           \* per session: vectors returned by the finished calls
    pos,            \* per session: words its generator has produced so far
    tape,           \* the word stream of the seed, as far as it was produced
    cmp             \* the last `==` between the two sessions' results

vars == <<arg, res, pc, samples, acc, sum, idx, alpha_sum_rl, log, hist, pos,
          tape, cmp>>

\* ------------------------------------------------------------ Dirichlet
Ok(alpha) == [tag |-> "Ok", alpha |-> alpha]
Err(e) == [tag |-> e, alpha |-> <<>>]
NoResult == [tag |-> "none", alpha |-> <<>>]

\* alpha.to_vec().into_boxed_slice(): a fresh, element-for-element copy
ToVec(alpha) == [i \in 1..Len(alpha) |-> alpha[i]]

\* vec![alpha; size].into_boxed_slice()
VecRepeat(a, size) == [i \in 1..size |-> a]

\* a frequent slip: `ai <= 0` lets NaN through
NewResultLeZero(alpha) ==
    IF Len(alpha) < 2 THEN Err("AlphaTooShort")
    ELSE IF \E i \in 1..Len(alpha) : FLe(alpha[i], Zero) THEN Err("AlphaTooSmall")
    ELSE Ok(ToVec(alpha))

\* Dirichlet::new
NewResult(alpha) ==
    IF Len(alpha) < 2 THEN Err("AlphaTooShort")
    ELSE IF \E i \in 1..Len(alpha) : ~FGt(alpha[i], Zero) THEN Err("AlphaTooSmall")
    ELSE Ok(ToVec(alpha))

\* the two checks in the other order
NewWithSizeResultSizeFirst(a, size) ==
    IF size < 2 THEN Err("SizeTooSmall")
    ELSE IF ~FGt(a, Zero) THEN Err("AlphaTooSmall")
    ELSE Ok(VecRepeat(a, size))

\* Dirichlet::new_with_size
NewWithSizeResult(a, size) ==
    IF ~FGt(a, Zero) THEN Err("AlphaTooSmall")
    ELSE IF size < 2 THEN Err("SizeTooSmall")
    ELSE Ok(VecRepeat(a, size))

\* slices compared over their common prefix only
DirichletEqPrefix(x, y) ==
    \A i \in 1..(IF Len(x) < Len(y) THEN Len(x) ELSE Len(y)) : FEq(x[i], y[i])

\* #[derive(PartialEq)] on Dirichlet: equality of the boxed slices
DirichletEq(x, y) ==
    Len(x) = Len(y) /\ \A i \in 1..Len(x) : FEq(x[i], y[i])

\* == on Result<Dirichlet<F>, Error>
ResultEq(x, y) ==
    IF x.tag = "Ok" /\ y.tag = "Ok" THEN DirichletEq(x.alpha, y.alpha)
    ELSE x.tag = y.tag

\* ------------------------------------------------- collaborators (Beta, Gamma)
\* Beta::new(a, b): both shape parameters must be strictly positive
BetaNew(a, b) == IF FGt(a, Zero) /\ FGt(b, Zero) THEN "Ok" ELSE "Err"

\* Gamma::new(shape, scale): shape and scale must be strictly positive
GammaNew(shape, scale) ==
    IF FGt(shape, Zero) /\ FGt(scale, Zero) THEN "Ok" ELSE "Err"

\* a beta variate: a float of [0, 1] fixed by the generator's word
BetaSample(a, b, w) == FromRat(w, MaxWord)

\* a gamma variate: a float of [0, inf] fixed by the generator's word; it
\* underflows to exact zero for some words
GammaSample(shape, scale, w) ==
    IF IsInf(shape) THEN PosInf ELSE FMul(FromRat(w * w, 4), scale)


\* ------------------------------------------------------ Dirichlet::sample
Min(x, y) == IF x < y THEN x ELSE y

\* .skip(1)
Skip1(s) == SubSeq(s, 2, Len(s))

\* .rev() and Vec::reverse
Rev(s) == [i \in 1..Len(s) |-> s[Len(s) + 1 - i]]

\* .scan(F::zero(), |sum, x| { *sum = *sum + *x; Some(*sum) }): element i is
\* the running sum after s[i] was added
RECURSIVE RunningSum(_, _)
RunningSum(s, i) == IF i = 0 THEN Zero ELSE FAdd(RunningSum(s, i - 1), s[i])

ScanSum(s) == [i \in 1..Len(s) |-> RunningSum(s, i)]

\* a scan that yields the sum before the element is added
ScanSumExclusive(s) == [i \in 1..Len(s) |-> RunningSum(s, i - 1)]

\* the cumulative sum taken over the exclusive scan
AlphaSumRlExclusive(alpha) == Rev(ScanSumExclusive(Rev(Skip1(alpha))))

\* the cumulative sum without the final reverse()
AlphaSumRlNoReverse(alpha) == ScanSum(Rev(Skip1(alpha)))

\* the right-to-left cumulative sum of alpha without its first element
AlphaSumRl(alpha) == Rev(ScanSum(Rev(Skip1(alpha))))

\* the threshold test with `<` for `<=`
UseStickBreakingStrict(alpha) ==
    \A i \in 1..Len(alpha) : ~IsNaN(alpha[i]) /\ ~FLe(PointOne, alpha[i])

\* self.alpha.iter().all(|x| *x <= NumCast::from(0.1).unwrap())
UseStickBreaking(alpha) == \A i \in 1..Len(alpha) : FLe(alpha[i], PointOne)

\* every variate divided by the sum
NormalizeByDivision(s, total) == [i \in 1..Len(s) |-> FDiv(s[i], total)]

\* let invacc = F::one() / sum; every variate multiplied by invacc
Normalize(s, total) ==
    LET invacc == FDiv(One, total)
    IN  [i \in 1..Len(s) |-> FMul(s[i], invacc)]

\* one generator shared by every caller
RngOfGlobal(r) == 1

\* the generator the call was handed: `rng: &mut R`
RngOf(r) == r

\* the generator of session r produces its next word w
RngNext(r, w) ==
    LET g == RngOf(r)
    IN  /\ pos[g] < Len(tape) => w = tape[pos[g] + 1]
        /\ tape' = IF pos[g] < Len(tape) THEN tape ELSE Append(tape, w)
        /\ pos' = [pos EXCEPT ![g] = @ + 1]

Alpha(r) == res[r].alpha

\* a call of Dirichlet::new with some input of Inputs
New(r, Inputs) ==
    /\ pc[r] = "idle"
    /\ res[r].tag = "none"
    /\ \E alpha \in Inputs :
         /\ arg' = [arg EXCEPT ![r] = [op |-> "new", alpha |-> alpha,
                                       a |-> Zero, size |-> 0]]
         /\ res' = [res EXCEPT ![r] = NewResult(alpha)]
    /\ UNCHANGED <<pc, samples, acc, sum, idx, alpha_sum_rl, log, hist, pos,
                   tape, cmp>>

\* a call of Dirichlet::new_with_size with some value of Vals and size of Sizes
NewWithSize(r, Vals, Sizes) ==
    /\ pc[r] = "idle"
    /\ res[r].tag = "none"
    /\ \E a \in Vals, size \in Sizes :
         /\ arg' = [arg EXCEPT ![r] = [op |-> "new_with_size", alpha |-> <<>>,
                                       a |-> a, size |-> size]]
         /\ res' = [res EXCEPT ![r] = NewWithSizeResult(a, size)]
    /\ UNCHANGED <<pc, samples, acc, sum, idx, alpha_sum_rl, log, hist, pos,
                   tape, cmp>>

\* entry of sample up to the first loop
SampleBegin(r) ==
    /\ pc[r] = "idle"
    /\ res[r].tag = "Ok"
    /\ pos[RngOf(r)] + Len(Alpha(r)) <= MaxTape
    /\ samples' = [samples EXCEPT ![r] = [i \in 1..Len(Alpha(r)) |-> Zero]]
    /\ log' = [log EXCEPT ![r] = <<>>]
    /\ idx' = [idx EXCEPT ![r] = 1]
    /\ IF UseStickBreaking(Alpha(r))
       THEN /\ alpha_sum_rl' = [alpha_sum_rl EXCEPT ![r] = AlphaSumRl(Alpha(r))]
            /\ acc' = [acc EXCEPT ![r] = One]
            /\ pc' = [pc EXCEPT ![r] = "stick"]
            /\ UNCHANGED sum
       ELSE /\ sum' = [sum EXCEPT ![r] = Zero]
            /\ pc' = [pc EXCEPT ![r] = "gamma"]
            /\ UNCHANGED <<acc, alpha_sum_rl>>
    /\ UNCHANGED <<arg, res, hist, pos, tape, cmp>>

\* the zip of samples, alpha and alpha_sum_rl ends with its shortest part
StickLen(r) == Min(Min(Len(samples[r]), Len(Alpha(r))), Len(alpha_sum_rl[r]))

\* one turn of the stick-breaking loop
StickStep(r) ==
    /\ pc[r] = "stick"
    /\ idx[r] <= StickLen(r)
    /\ LET a == Alpha(r)[idx[r]]
           b == alpha_sum_rl[r][idx[r]]
       IN  IF BetaNew(a, b) = "Err"
           THEN /\ pc' = [pc EXCEPT ![r] = "panic"]
                /\ UNCHANGED <<samples, acc, idx, log, pos, tape>>
           ELSE \E w \in Words :
                  /\ RngNext(r, w)
                  /\ LET beta_sample == BetaSample(a, b, w)
                     IN  /\ samples' = [samples EXCEPT ![r][idx[r]] =
                                            FMul(acc[r], beta_sample)]
                         /\ acc' = [acc EXCEPT ![r] =
                                        FMul(@, FSub(One, beta_sample))]
                         /\ log' = [log EXCEPT ![r] =
                                        Append(@, [dist |-> "Beta", a |-> a,
                                                   b |-> b, v |-> beta_sample])]
                  /\ idx' = [idx EXCEPT ![r] = @ + 1]
                  /\ UNCHANGED pc
    /\ UNCHANGED <<arg, res, sum, alpha_sum_rl, hist, cmp>>

\* samples[n - 1] = acc, and the return
StickFinish(r) ==
    /\ pc[r] = "stick"
    /\ idx[r] > StickLen(r)
    /\ LET n == Len(Alpha(r))
       IN  IF n < 1
           THEN /\ pc' = [pc EXCEPT ![r] = "panic"]
                /\ UNCHANGED <<samples, hist>>
           ELSE /\ hist' = [hist EXCEPT ![r] =
                              Append(@, [out |-> [samples[r] EXCEPT ![n] = acc[r]],
                                         rng |-> pos[r]])]
                /\ samples' = [samples EXCEPT ![r] = <<>>]
                /\ pc' = [pc EXCEPT ![r] = "idle"]
    /\ UNCHANGED <<arg, res, acc, sum, idx, alpha_sum_rl, log, pos, tape, cmp>>

\* one turn of the gamma loop
GammaStep(r) ==
    /\ pc[r] = "gamma"
    /\ idx[r] <= Min(Len(samples[r]), Len(Alpha(r)))
    /\ LET a == Alpha(r)[idx[r]]
       IN  IF GammaNew(a, One) = "Err"
           THEN /\ pc' = [pc EXCEPT ![r] = "panic"]
                /\ UNCHANGED <<samples, sum, idx, log, pos, tape>>
           ELSE \E w \in Words :
                  /\ RngNext(r, w)
                  /\ LET s == GammaSample(a, One, w)
                     IN  /\ samples' = [samples EXCEPT ![r][idx[r]] = s]
                         /\ sum' = [sum EXCEPT ![r] = FAdd(@, s)]
                         /\ log' = [log EXCEPT ![r] =
                                        Append(@, [dist |-> "Gamma", a |-> a,
                                                   b |-> One, v |-> s])]
                  /\ idx' = [idx EXCEPT ![r] = @ + 1]
                  /\ UNCHANGED pc
    /\ UNCHANGED <<arg, res, acc, alpha_sum_rl, hist, cmp>>

\* the normalisation loop, and the return
GammaFinish(r) ==
    /\ pc[r] = "gamma"
    /\ idx[r] > Min(Len(samples[r]), Len(Alpha(r)))
    /\ hist' = [hist EXCEPT ![r] =
                   Append(@, [out |-> Normalize(samples[r], sum[r]),
                              rng |-> pos[r]])]
    /\ samples' = [samples EXCEPT ![r] = <<>>]
    /\ pc' = [pc EXCEPT ![r] = "idle"]
    /\ UNCHANGED <<arg, res, acc, sum, idx, alpha_sum_rl, log, pos, tape, cmp>>

\* res[1] == res[2]
Compare ==
    /\ \A r \in Sessions : pc[r] = "idle" /\ res[r].tag # "none"
    /\ cmp' = [done |-> TRUE, la |-> arg[1], ra |-> arg[2],
               l |-> res[1], r |-> res[2], eq |-> ResultEq(res[1], res[2])]
    /\ UNCHANGED <<arg, res, pc, samples, acc, sum, idx, alpha_sum_rl, log,
                   hist, pos, tape>>

NoArg == [op |-> "none", alpha |-> <<>>, a |-> Zero, size |-> 0]
NoCmp == [done |-> FALSE, la |-> NoArg, ra |-> NoArg,
          l |-> NoResult, r |-> NoResult, eq |-> FALSE]

Init ==
    /\ arg = [r \in Sessions |-> NoArg]
    /\ res = [r \in Sessions |-> NoResult]
    /\ pc = [r \in Sessions |-> "idle"]
    /\ samples = [r \in Sessions |-> <<>>]
    /\ acc = [r \in Sessions |-> One]
    /\ sum = [r \in Sessions |-> Zero]
    /\ idx = [r \in Sessions |-> 1]
    /\ alpha_sum_rl = [r \in Sessions |-> <<>>]
    /\ log = [r \in Sessions |-> <<>>]
    /\ hist = [r \in Sessions |-> <<>>]
    /\ pos = [r \in Sessions |-> 0]
    /\ tape = <<>>
    /\ cmp = NoCmp

\* one caller: every constructor input, then sample calls
Next ==
    \/ New(1, SeqsUpTo(InVals, MaxLen))
    \/ NewWithSize(1, InVals, 0..MaxLen)
    \/ SampleBegin(1)
    \/ StickStep(1)
    \/ StickFinish(1)
    \/ GammaStep(1)
    \/ GammaFinish(1)

Spec == Init /\ [][Next]_vars


\* two callers with generators seeded alike: one construction each, then
\* sample calls in any interleaving
PairAlphas == {<<Small>>, <<Small, Small>>, <<Small, AboveT>>,
               <<Small, Small, Small>>}

NextPair ==
    \/ \E r \in Sessions : New(r, PairAlphas)
    \/ \E r \in Sessions : NewWithSize(r, {AboveT}, {2})
    \/ \E r \in Sessions : SampleBegin(r)
    \/ \E r \in Sessions : StickStep(r)
    \/ \E r \in Sessions : StickFinish(r)
    \/ \E r \in Sessions : GammaStep(r)
    \/ \E r \in Sessions : GammaFinish(r)

SpecPair == Init /\ [][NextPair]_vars

\* two constructions from any inputs, then their results compared
EqVals == {NaN, Small, AboveT}

NextEq ==
    \/ \E r \in Sessions : New(r, SeqsUpTo(EqVals, MaxLen))
    \/ \E r \in Sessions : NewWithSize(r, EqVals, 0..MaxLen)
    \/ Compare

SpecEq == Init /\ [][NextEq]_vars


\* ------------------------------------------------------------- properties
\* a value the constructors must refuse: NaN, zero or negative
NotPositive(x) == IsNaN(x) \/ x.k <= 0

\* the finished sample calls of session r
Calls(r) == 1..Len(hist[r])

\* the draws of the running or last call of session r are all of one kind
AllDraws(r, dist) == \A j \in 1..Len(log[r]) : log[r][j].dist = dist

\* session r has returned from the call that made log[r]
Returned(r) == pc[r] = "idle" /\ log[r] # <<>> /\ hist[r] # <<>>
LastOut(r) == hist[r][Len(hist[r])].out

\* words the generator of session r produced during its last finished call
LastDrawn(r) ==
    hist[r][Len(hist[r])].rng
        - (IF Len(hist[r]) = 1 THEN 0 ELSE hist[r][Len(hist[r]) - 1].rng)

\* sum of the units of a vector of finite floats
RECURSIVE UnitSum(_, _)
UnitSum(v, i) == IF i = 0 THEN 0 ELSE UnitSum(v, i - 1) + v[i].k

\* C1: every vector sample returns has the length of the concentration
\* vector, every component strictly between 0 and 1, and a sum within
\* rounding tolerance (one unit in the last place of 1 per component) of 1.
C1_SampleOnSimplex ==
    \A r \in Sessions : \A j \in Calls(r) :
        LET o == hist[r][j].out
        IN  /\ Len(o) = Len(Alpha(r))
            /\ \A i \in 1..Len(o) : IsFinite(o[i]) /\ 0 < o[i].k /\ o[i].k < OneK
            /\ Abs(UnitSum(o, Len(o)) - OneK) <= Len(o) * Ulp(OneK)

\* C2: sample never panics: no Beta::new or Gamma::new it calls returns Err,
\* every shape parameter it passes, suffix sums included, being strictly
\* positive.
C2_SampleNeverPanics ==
    \A r \in Sessions :
        /\ pc[r] # "panic"
        /\ \A j \in 1..Len(log[r]) :
               /\ ~NotPositive(log[r][j].a)
               /\ ~NotPositive(log[r][j].b)

C2_Witness ==
    /\ Returned(1)
    /\ Len(Alpha(1)) = 3
    /\ Len(log[1]) = 2
    /\ AllDraws(1, "Beta")

\* C3: new answers AlphaTooShort for fewer than two elements, AlphaTooSmall
\* for two or more with one that is <= 0 or NaN, and otherwise Ok with an
\* element-for-element copy of the input.
C3_NewContract ==
    \A r \in Sessions :
        arg[r].op = "new" =>
            LET a == arg[r].alpha
            IN  IF Len(a) < 2 THEN res[r].tag = "AlphaTooShort"
                ELSE IF \E i \in 1..Len(a) : NotPositive(a[i])
                     THEN res[r].tag = "AlphaTooSmall"
                ELSE /\ res[r].tag = "Ok"
                     /\ Len(res[r].alpha) = Len(a)
                     /\ \A i \in 1..Len(a) : res[r].alpha[i] = a[i]

C3_Witness ==
    /\ arg[1].op = "new"
    /\ Len(arg[1].alpha) >= 2
    /\ \E i \in 1..Len(arg[1].alpha) : IsNaN(arg[1].alpha[i])
    /\ res[1].tag = "AlphaTooSmall"

\* C4: new_with_size answers AlphaTooSmall for a value that is <= 0 or NaN
\* whatever the size, SizeTooSmall for a positive value and a size below 2,
\* and otherwise Ok with the value repeated size times.
C4_NewWithSizeContract ==
    \A r \in Sessions :
        arg[r].op = "new_with_size" =>
            IF NotPositive(arg[r].a) THEN res[r].tag = "AlphaTooSmall"
            ELSE IF arg[r].size < 2 THEN res[r].tag = "SizeTooSmall"
            ELSE /\ res[r].tag = "Ok"
                 /\ Len(res[r].alpha) = arg[r].size
                 /\ \A i \in 1..arg[r].size : res[r].alpha[i] = arg[r].a

C4_Witness ==
    /\ arg[1].op = "new_with_size"
    /\ NotPositive(arg[1].a)
    /\ arg[1].size < 2
    /\ res[1].tag = "AlphaTooSmall"

\* C5: the concentration vector of every Dirichlet has at least two
\* elements, each finite and strictly greater than zero.
C5_AlphaFinitePositive ==
    \A r \in Sessions :
        res[r].tag = "Ok" =>
            /\ Len(Alpha(r)) >= 2
            /\ \A i \in 1..Len(Alpha(r)) :
                   IsFinite(Alpha(r)[i]) /\ Alpha(r)[i].k > 0

C8_StructuralEquality ==
    cmp.done =>
        /\ (cmp.l.tag = "Ok" /\ cmp.r.tag = "Ok") =>
               (cmp.eq <=> /\ Len(cmp.l.alpha) = Len(cmp.r.alpha)
                           /\ \A i \in 1..Len(cmp.l.alpha) :
                                  cmp.l.alpha[i] = cmp.r.alpha[i])
        /\ cmp.la = cmp.ra => cmp.eq

C8_Witness ==
    /\ cmp.done
    /\ cmp.l.tag = "Ok"
    /\ cmp.r.tag = "Ok"
    /\ Len(cmp.l.alpha) < Len(cmp.r.alpha)
    /\ \A i \in 1..Len(cmp.l.alpha) : cmp.l.alpha[i] = cmp.r.alpha[i]
    /\ ~cmp.eq

\* b[i] = a[i+1] + ... + a[n], accumulated from the last element down
RECURSIVE SuffixSum(_, _)
SuffixSum(a, i) ==
    IF i >= Len(a) THEN Zero ELSE FAdd(SuffixSum(a, i + 1), a[i + 1])

\* the stick left after the first i of the beta variates v
RECURSIVE Remaining(_, _)
Remaining(v, i) ==
    IF i = 0 THEN One ELSE FMul(Remaining(v, i - 1), FSub(One, v[i].v))

\* C9: on the stick-breaking path the i-th draw is Beta(a[i], b[i]) with b[i]
\* the sum of the later elements; there are n-1 draws; component i is the
\* stick left before draw i times the variate, and the last component is the
\* stick left after the last draw.
C9_StickBreaking ==
    \A r \in Sessions :
        (log[r] # <<>> /\ log[r][1].dist = "Beta") =>
            LET a == Alpha(r)
                n == Len(a)
                d == log[r]
            IN  /\ Len(d) <= n - 1
                /\ \A j \in 1..Len(d) :
                       /\ d[j].dist = "Beta"
                       /\ d[j].a = a[j]
                       /\ d[j].b = SuffixSum(a, j)
                /\ pc[r] = "stick" =>
                       /\ idx[r] = Len(d) + 1
                       /\ acc[r] = Remaining(d, Len(d))
                       /\ \A j \in 1..Len(d) :
                              samples[r][j] = FMul(Remaining(d, j - 1), d[j].v)
                /\ Returned(r) =>
                       /\ Len(d) = n - 1
                       /\ Len(LastOut(r)) = n
                       /\ \A j \in 1..(n - 1) :
                              LastOut(r)[j] = FMul(Remaining(d, j - 1), d[j].v)
                       /\ LastOut(r)[n] = Remaining(d, n - 1)
                       /\ LastDrawn(r) = n - 1

C9_Witness ==
    /\ Returned(1)
    /\ AllDraws(1, "Beta")
    /\ Len(log[1]) = 2
    /\ Alpha(1)[2] # Alpha(1)[3]
    /\ log[1][1].v # Zero
    /\ log[1][1].v # One

\* the sum of the first i of the gamma variates v, accumulated in index order
RECURSIVE DrawSum(_, _)
DrawSum(v, i) == IF i = 0 THEN Zero ELSE FAdd(DrawSum(v, i - 1), v[i].v)

\* C10: on the gamma path the i-th draw is Gamma(a[i], 1); there are n draws
\* and no Beta draw; component i is the i-th variate times the reciprocal, taken
\* once, of the sum of all n variates.
C10_GammaNormalization ==
    \A r \in Sessions :
        (log[r] # <<>> /\ log[r][1].dist = "Gamma") =>
            LET a == Alpha(r)
                n == Len(a)
                d == log[r]
            IN  /\ Len(d) <= n
                /\ \A j \in 1..Len(d) :
                       /\ d[j].dist = "Gamma"
                       /\ d[j].a = a[j]
                       /\ d[j].b = One
                /\ pc[r] = "gamma" =>
                       /\ idx[r] = Len(d) + 1
                       /\ sum[r] = DrawSum(d, Len(d))
                /\ Returned(r) =>
                       /\ Len(d) = n
                       /\ Len(LastOut(r)) = n
                       /\ \A j \in 1..n :
                              LastOut(r)[j] =
                                  FMul(d[j].v, FDiv(One, DrawSum(d, n)))
                       /\ LastDrawn(r) = n

C10_Witness ==
    /\ Returned(1)
    /\ AllDraws(1, "Gamma")
    /\ Len(log[1]) = 3
    /\ \E j \in 1..3 :
           /\ IsFinite(LastOut(1)[j])
           /\ LastOut(1)[j] # FDiv(log[1][j].v, DrawSum(log[1], 3))

====
